---- MODULE Spec2Model ----
(***************************************************************************)
(* A model of hotham's rendering core: the Renderer's construction, draw   *)
(* cycle and teardown (hotham/src/renderer.rs) and the skinning system     *)
(* (hotham/src/systems/skinning.rs).                                       *)
(***************************************************************************)
EXTENDS Integers, Sequences, FiniteSets, TLC

VARIABLES
    pc,             \* position of the thread that owns the Renderer
    images,         \* number of images of the swapchain (Swapchain.images.len())
    params,         \* ProgramInitialization: [vertices, indices]
    created,        \* GPU objects created so far, as <<kind, index>>
    deviceLog,      \* device calls that release or wait: <<kind, index>> per destroy
    frames,         \* Renderer.frames
    k,              \* loop cursor of create_frames / step cursor of drop
    frame_index,    \* Renderer.frame_index
    vertex_buffer,  \* Renderer.vertex_buffer: [data, device]
    index_buffer,   \* Renderer.index_buffer: [data, device]
    cur,            \* the frame_index argument of the draw call in progress
    result,         \* what the last draw call returned: "none", "ok", "err"
    calls,          \* the device calls that succeeded in the draw call, in order
    errs,           \* how many draw calls have returned an error
    driver,         \* what the driver answered inside create_pipeline
    error,          \* the error Renderer::new returned, "none" if none
    spc,            \* position of the skinning system
    world,          \* the entities, in the order they were pushed
    joint_matrices, \* the accumulator of skinning: skeleton root -> matrices
    sk,             \* cursor of the query in progress
    uploads         \* the calls of Buffer::update of this tick: [entity, count]

rvars == <<pc, images, params, created, deviceLog, frames, k, frame_index,
           vertex_buffer, index_buffer, cur, result, calls, errs, driver, error>>

svars == <<spc, world, joint_matrices, sk, uploads>>

vars == <<rvars, svars>>

-----------------------------------------------------------------------------
(* Bounds *)

MaxImages == 3
MaxDraws == 3
MaxIndices == 2
MaxEntities == 3
MaxCapacity == 2
MaxShift == 3

-----------------------------------------------------------------------------
(* GPU objects *)

Obj(kind, i) == <<kind, i>>

QueueWaitIdle == <<"queue_wait_idle", 0>>

\* How many times obj was released.
Frees(obj) == Cardinality({j \in DOMAIN deviceLog : deviceLog[j] = obj})

-----------------------------------------------------------------------------
(* ProgramInitialization *)

\* A mesh of n vertices, each used once: vertex j is drawn by index j - 1.
Vertices(n) == [j \in 1..n |-> j]
Indices(n) == [j \in 1..n |-> j - 1]

ParamsSet ==
    {[vertices |-> Vertices(n), indices |-> Indices(n)] : n \in 0..MaxIndices}

\* Buffer::new: device memory sized for the data, which is uploaded.
NewBuffer(data) == [data |-> data, device |-> data]

NoBuffer == [data |-> <<>>, device |-> <<>>]

-----------------------------------------------------------------------------
(* Renderer::new *)

\* Before Renderer::new: nothing exists.  The world of the skinning system
\* is empty and stays so.
Init ==
    /\ pc = "new_swapchain"
    /\ images \in 1..MaxImages
    /\ params \in ParamsSet
    /\ created = {}
    /\ deviceLog = <<>>
    /\ frames = <<>>
    /\ k = 0
    /\ frame_index = 0
    /\ vertex_buffer = NoBuffer
    /\ index_buffer = NoBuffer
    /\ cur = 0
    /\ result = "none"
    /\ calls = <<>>
    /\ errs = 0
    /\ driver = "none"
    /\ error = "none"
    /\ spc = "idle"
    /\ world = <<>>
    /\ joint_matrices = <<>>
    /\ sk = 0
    /\ uploads = <<>>

\* An early return of Renderer::new through `?`.
Fail(e) ==
    /\ pc' = "failed"
    /\ error' = e

NewSwapchain ==
    /\ pc = "new_swapchain"
    /\ \/ pc' = "new_pipeline_layout" /\ error' = error
       \/ Fail("OpenXRError")
    /\ UNCHANGED <<images, params, created, deviceLog, frames, k, frame_index,
                   vertex_buffer, index_buffer, cur, result, calls, errs, driver>>
    /\ UNCHANGED svars

NewPipelineLayout ==
    /\ pc = "new_pipeline_layout"
    /\ \/ /\ pc' = "new_render_pass"
          /\ created' = created \cup {Obj("pipeline_layout", 0)}
          /\ error' = error
       \/ Fail("VkResult") /\ created' = created
    /\ UNCHANGED <<images, params, deviceLog, frames, k, frame_index,
                   vertex_buffer, index_buffer, cur, result, calls, errs, driver>>
    /\ UNCHANGED svars

NewRenderPass ==
    /\ pc = "new_render_pass"
    /\ \/ /\ pc' = "new_pipeline"
          /\ created' = created \cup {Obj("render_pass", 0)}
          /\ error' = error
       \/ Fail("VkResult") /\ created' = created
    /\ UNCHANGED <<images, params, deviceLog, frames, k, frame_index,
                   vertex_buffer, index_buffer, cur, result, calls, errs, driver>>
    /\ UNCHANGED svars

\* What the file system and the driver can answer inside create_pipeline.
PipelineOutcomes ==
    {"vertex_read_err", "vertex_module_err", "fragment_read_err",
     "fragment_module_err", "pipelines_err", "empty", "ok"}

\* The answers by which the driver rejects the bytecode or gives no pipeline.
Rejections == {"vertex_module_err", "fragment_module_err", "pipelines_err", "empty"}

create_pipeline_lenient(outcome) ==
    LET vs == Obj("shader_module", 0)
        fs == Obj("shader_module", 1)
        pl == Obj("pipeline", 0)
    IN  CASE outcome = "vertex_read_err" ->
               [error |-> "Other", creates |-> {}, destroys |-> <<>>]
          [] outcome = "vertex_module_err" ->
               [error |-> "VkResult", creates |-> {}, destroys |-> <<>>]
          [] outcome = "fragment_read_err" ->
               [error |-> "Other", creates |-> {vs}, destroys |-> <<>>]
          [] outcome = "fragment_module_err" ->
               [error |-> "VkResult", creates |-> {vs}, destroys |-> <<>>]
          [] outcome = "pipelines_err" ->
               [error |-> "VkResult", creates |-> {vs, fs}, destroys |-> <<>>]
          [] outcome = "empty" ->
               [error |-> "none", creates |-> {vs, fs}, destroys |-> <<vs, fs>>]
          [] outcome = "ok" ->
               [error |-> "none", creates |-> {vs, fs, pl}, destroys |-> <<vs, fs>>]

\* create_pipeline: the error it returns ("none" for Ok), the objects it has
\* created and the objects it has destroyed by the time it returns.
create_pipeline(outcome) ==
    LET vs == Obj("shader_module", 0)
        fs == Obj("shader_module", 1)
        pl == Obj("pipeline", 0)
    IN  CASE outcome = "vertex_read_err" ->
               [error |-> "Other", creates |-> {}, destroys |-> <<>>]
          [] outcome = "vertex_module_err" ->
               [error |-> "VkResult", creates |-> {}, destroys |-> <<>>]
          [] outcome = "fragment_read_err" ->
               [error |-> "Other", creates |-> {vs}, destroys |-> <<>>]
          [] outcome = "fragment_module_err" ->
               [error |-> "VkResult", creates |-> {vs}, destroys |-> <<>>]
          [] outcome = "pipelines_err" ->
               [error |-> "VkResult", creates |-> {vs, fs}, destroys |-> <<>>]
          [] outcome = "empty" ->
               [error |-> "EmptyListError", creates |-> {vs, fs}, destroys |-> <<vs, fs>>]
          [] outcome = "ok" ->
               [error |-> "none", creates |-> {vs, fs, pl}, destroys |-> <<vs, fs>>]

NewPipeline ==
    /\ pc = "new_pipeline"
    /\ \E outcome \in PipelineOutcomes :
        LET r == create_pipeline(outcome)
        IN  /\ driver' = outcome
            /\ created' = created \cup r.creates
            /\ deviceLog' = deviceLog \o r.destroys
            /\ IF r.error = "none"
               THEN pc' = "new_depth_image" /\ error' = error
               ELSE Fail(r.error)
    /\ UNCHANGED <<images, params, frames, k, frame_index,
                   vertex_buffer, index_buffer, cur, result, calls, errs>>
    /\ UNCHANGED svars

NewDepthImage ==
    /\ pc = "new_depth_image"
    /\ \/ /\ pc' = "new_frames"
          /\ created' = created \cup {Obj("depth_image", 0)}
          /\ k' = 0
          /\ error' = error
       \/ Fail("VkResult") /\ created' = created /\ k' = k
    /\ UNCHANGED <<images, params, deviceLog, frames, frame_index,
                   vertex_buffer, index_buffer, cur, result, calls, errs, driver>>
    /\ UNCHANGED svars

\* Frame::new: one framebuffer over the colour view and the depth view, one
\* command buffer, one fence, unsignaled.
FrameNew(image) ==
    [image |-> image, state |-> "Idle", commands |-> <<>>, submitted |-> <<>>,
     fence |-> "unsignaled", pending |-> FALSE]

FrameObjects(image) ==
    <<Obj("framebuffer", image), Obj("command_buffer", image), Obj("fence", image)>>

Range(seq) == {seq[j] : j \in DOMAIN seq}

\* One round of the iterator chain of create_frames, for image k: flat_map
\* over the Result of create_image_view yields nothing for an Err, and
\* collect stops at the first Err of Frame::new.
NewFrames ==
    /\ pc = "new_frames"
    /\ k < images
    /\ \E outcome \in {"view_err", "frame_err", "ok"} :
        CASE outcome = "view_err" ->
               /\ created' = created
               /\ frames' = frames
               /\ k' = k + 1
               /\ pc' = IF k + 1 = images THEN "new_vertex_buffer" ELSE pc
               /\ error' = error
          [] outcome = "frame_err" ->
               /\ created' = created \cup {Obj("color_view", k)}
               /\ frames' = frames
               /\ k' = k
               /\ Fail("VkResult")
          [] outcome = "ok" ->
               /\ created' = created \cup {Obj("color_view", k)}
                                     \cup Range(FrameObjects(k))
               /\ frames' = Append(frames, FrameNew(k))
               /\ k' = k + 1
               /\ pc' = IF k + 1 = images THEN "new_vertex_buffer" ELSE pc
               /\ error' = error
    /\ UNCHANGED <<images, params, deviceLog, frame_index,
                   vertex_buffer, index_buffer, cur, result, calls, errs, driver>>
    /\ UNCHANGED svars

NewVertexBuffer ==
    /\ pc = "new_vertex_buffer"
    /\ \/ /\ pc' = "new_index_buffer"
          /\ created' = created \cup {Obj("vertex_buffer", 0)}
          /\ vertex_buffer' = NewBuffer(params.vertices)
          /\ error' = error
       \/ Fail("VkResult") /\ UNCHANGED <<created, vertex_buffer>>
    /\ UNCHANGED <<images, params, deviceLog, frames, k, frame_index,
                   index_buffer, cur, result, calls, errs, driver>>
    /\ UNCHANGED svars

\* The last fallible step; on success Renderer::new returns Ok(Self) with
\* frame_index 0.
NewIndexBuffer ==
    /\ pc = "new_index_buffer"
    /\ \/ /\ pc' = "ready"
          /\ created' = created \cup {Obj("index_buffer", 0)}
          /\ index_buffer' = NewBuffer(params.indices)
          /\ frame_index' = 0
          /\ error' = error
       \/ Fail("VkResult") /\ UNCHANGED <<created, index_buffer, frame_index>>
    /\ UNCHANGED <<images, params, deviceLog, frames, k,
                   vertex_buffer, cur, result, calls, errs, driver>>
    /\ UNCHANGED svars

-----------------------------------------------------------------------------
(* Renderer::draw *)

Cmd(op, arg) == [op |-> op, arg |-> arg]

prepare_frame_short_count(index_count) ==
    << Cmd("begin_command_buffer", <<>>),
       Cmd("cmd_begin_render_pass", <<0, 0, 0, 1, 0, 0>>),
       Cmd("cmd_bind_pipeline", <<>>),
       Cmd("cmd_bind_vertex_buffers", <<0, 0>>),
       Cmd("cmd_bind_index_buffer", <<0, 32>>),
       Cmd("cmd_draw_indexed", <<IF index_count > 0 THEN index_count - 1 ELSE 0,
                                 1, 0, 0, 0>>),
       Cmd("cmd_end_render_pass", <<>>),
       Cmd("end_command_buffer", <<>>) >>

\* The calls prepare_frame makes on the command buffer, in order.  The
\* argument of cmd_begin_render_pass is the clear colour (r, g, b, a)
\* followed by the clear depth and stencil; of the binds, first binding or
\* offset, then offset or index width; of the draw, index count, instance
\* count, first index, vertex offset, first instance.
prepare_frame(index_count) ==
    << Cmd("begin_command_buffer", <<>>),
       Cmd("cmd_begin_render_pass", <<0, 0, 0, 1, 0, 0>>),
       Cmd("cmd_bind_pipeline", <<>>),
       Cmd("cmd_bind_vertex_buffers", <<0, 0>>),
       Cmd("cmd_bind_index_buffer", <<0, 32>>),
       Cmd("cmd_draw_indexed", <<index_count, 1, 0, 0, 0>>),
       Cmd("cmd_end_render_pass", <<>>),
       Cmd("end_command_buffer", <<>>) >>

Return(r) ==
    /\ pc' = "ready"
    /\ result' = r
    /\ errs' = IF r = "err" THEN errs + 1 ELSE errs

\* A device call of draw that succeeded.
Called(c) ==
    /\ calls' = Append(calls, c)
    /\ result' = result
    /\ errs' = errs

draw_call_no_count(n) == n

\* self.frame_index += 1
draw_call(n) == n + 1

\* The entry of draw: the counter, then the bounds-checked frames[frame_index].
DrawCall(i) ==
    /\ pc = "ready"
    /\ frame_index < MaxDraws
    /\ frame_index' = draw_call(frame_index)
    /\ cur' = i
    /\ result' = "none"
    /\ calls' = <<>>
    /\ pc' = IF i < Len(frames) THEN "prepare" ELSE "panicked"
    /\ UNCHANGED <<images, params, created, deviceLog, frames, k,
                   vertex_buffer, index_buffer, errs, driver, error>>
    /\ UNCHANGED svars

SetFrame(i, f) == frames' = [frames EXCEPT ![i + 1] = f]

\* prepare_frame, whose begin_command_buffer and end_command_buffer can fail.
PrepareFrame ==
    /\ pc = "prepare"
    /\ LET f == frames[cur + 1]
           cmds == prepare_frame(Len(index_buffer.data))
       IN  \/ /\ SetFrame(cur, [f EXCEPT !.state = "Recording", !.commands = cmds])
              /\ pc' = "reset_fences"
              /\ Called("prepare_frame")
           \/ /\ SetFrame(cur, [f EXCEPT !.state = "Recording",
                                         !.commands = SubSeq(cmds, 1, Len(cmds) - 1)])
              /\ Return("err")
              /\ calls' = calls
           \/ /\ frames' = frames
              /\ Return("err")
              /\ calls' = calls
    /\ UNCHANGED <<images, params, created, deviceLog, k, frame_index,
                   vertex_buffer, index_buffer, cur, driver, error>>
    /\ UNCHANGED svars

ResetFences ==
    /\ pc = "reset_fences"
    /\ \/ /\ SetFrame(cur, [frames[cur + 1] EXCEPT !.fence = "unsignaled"])
          /\ pc' = "queue_submit"
          /\ Called("reset_fences")
       \/ /\ frames' = frames
          /\ Return("err")
          /\ calls' = calls
    /\ UNCHANGED <<images, params, created, deviceLog, k, frame_index,
                   vertex_buffer, index_buffer, cur, driver, error>>
    /\ UNCHANGED svars

QueueSubmit ==
    /\ pc = "queue_submit"
    /\ LET f == frames[cur + 1]
       IN  \/ /\ SetFrame(cur, [f EXCEPT !.state = "Submitted",
                                         !.submitted = f.commands,
                                         !.pending = TRUE])
              /\ pc' = "wait_for_fences"
              /\ Called("queue_submit")
           \/ /\ frames' = frames
              /\ Return("err")
              /\ calls' = calls
    /\ UNCHANGED <<images, params, created, deviceLog, k, frame_index,
                   vertex_buffer, index_buffer, cur, driver, error>>
    /\ UNCHANGED svars

\* The GPU finishes the work submitted for a frame and signals its fence.
GpuSignal ==
    /\ \E j \in DOMAIN frames :
        /\ frames[j].pending
        /\ frames' = [frames EXCEPT ![j].pending = FALSE, ![j].fence = "signaled"]
    /\ UNCHANGED <<pc, images, params, created, deviceLog, k, frame_index,
                   vertex_buffer, index_buffer, cur, result, calls, errs,
                   driver, error>>
    /\ UNCHANGED svars

wait_for_fences_no_block(f) == TRUE

\* wait_for_fences(&fences, true, u64::MAX) returns Ok only once the fence
\* is signaled: there is no timeout.
wait_for_fences(f) == f.fence = "signaled"

WaitForFences ==
    /\ pc = "wait_for_fences"
    /\ wait_for_fences(frames[cur + 1])
    /\ SetFrame(cur, [frames[cur + 1] EXCEPT !.state = "Idle"])
    /\ Return("ok")
    /\ calls' = Append(calls, "wait_for_fences")
    /\ UNCHANGED <<images, params, created, deviceLog, k, frame_index,
                   vertex_buffer, index_buffer, cur, driver, error>>
    /\ UNCHANGED svars

\* wait_for_fences returns an error (device lost, out of memory).
WaitForFencesErr ==
    /\ pc = "wait_for_fences"
    /\ Return("err")
    /\ UNCHANGED <<images, params, created, deviceLog, frames, k, frame_index,
                   vertex_buffer, index_buffer, cur, calls, driver, error>>
    /\ UNCHANGED svars

\* The positions at which a Renderer exists and has not begun to drop.
LivePcs == {"ready", "prepare", "reset_fences", "queue_submit", "wait_for_fences"}

RendererLive == pc \in LivePcs

-----------------------------------------------------------------------------
(* impl Drop for Renderer *)

drop_order_pipeline_first ==
    <<"pipeline", "depth_image", "vertex_buffer", "index_buffer", "frames",
      "pipeline_layout", "render_pass">>

\* The destroy calls of drop, in the order of the code.
drop_order ==
    <<"depth_image", "vertex_buffer", "index_buffer", "frames",
      "pipeline_layout", "render_pass", "pipeline">>

\* Frame::destroy for every frame of the list, in order.
RECURSIVE DrainFrames(_)
DrainFrames(fs) ==
    IF fs = <<>> THEN <<>>
    ELSE FrameObjects(Head(fs).image) \o DrainFrames(Tail(fs))

DropTargets(step) ==
    IF step = "frames" THEN DrainFrames(frames) ELSE <<Obj(step, 0)>>

GpuIdle == \A j \in DOMAIN frames : ~frames[j].pending

\* queue_wait_idle(..).expect(..): returns once the queue is idle, or panics.
drop_wait_idle ==
    \/ /\ GpuIdle
       /\ deviceLog' = Append(deviceLog, QueueWaitIdle)
       /\ pc' = "drop"
       /\ k' = 1
    \/ /\ pc' = "drop_panicked"
       /\ UNCHANGED <<deviceLog, k>>

\* The Renderer goes out of scope, after a draw returned or while a panic of
\* draw unwinds.
Drop ==
    /\ pc \in {"ready", "panicked"}
    /\ drop_wait_idle
    /\ UNCHANGED <<images, params, created, frames, frame_index,
                   vertex_buffer, index_buffer, cur, result, calls, errs, driver, error>>
    /\ UNCHANGED svars

DropStep ==
    /\ pc = "drop"
    /\ LET step == drop_order[k]
       IN  /\ deviceLog' = deviceLog \o DropTargets(step)
           /\ frames' = IF step = "frames" THEN <<>> ELSE frames
    /\ k' = k + 1
    /\ pc' = IF k = Len(drop_order) THEN "dropped" ELSE "drop"
    /\ UNCHANGED <<images, params, created, frame_index,
                   vertex_buffer, index_buffer, cur, result, calls, errs, driver, error>>
    /\ UNCHANGED svars

Next ==
    \/ NewSwapchain
    \/ NewPipelineLayout
    \/ NewRenderPass
    \/ NewPipeline
    \/ NewDepthImage
    \/ NewFrames
    \/ NewVertexBuffer
    \/ NewIndexBuffer
    \/ \E i \in 0..(images - 1) : DrawCall(i)
    \/ PrepareFrame
    \/ ResetFences
    \/ QueueSubmit
    \/ GpuSignal
    \/ WaitForFences
    \/ WaitForFencesErr
    \/ Drop
    \/ DropStep

-----------------------------------------------------------------------------
(* Matrices: the affine maps v |-> s * Rot(r, v) + t, where Rot(r, .) is the
   rotation by r quarter turns about the z axis and s is 1, or 0 for a
   matrix that has no inverse. *)

Mat(s, r, t) == [s |-> s, r |-> r, t |-> t]

Identity == Mat(1, 0, <<0, 0, 0>>)

Singular == Mat(0, 0, <<0, 0, 0>>)

from_translation(t) == Mat(1, 0, t)

Rot(r, v) ==
    CASE r = 0 -> v
      [] r = 1 -> <<-v[2], v[1], v[3]>>
      [] r = 2 -> <<-v[1], -v[2], v[3]>>
      [] r = 3 -> <<v[2], -v[1], v[3]>>

Add3(a, b) == <<a[1] + b[1], a[2] + b[2], a[3] + b[3]>>
Scale3(c, a) == <<c * a[1], c * a[2], c * a[3]>>

\* The matrix product a * b.
Mul(a, b) ==
    Mat(a.s * b.s, (a.r + b.r) % 4, Add3(Scale3(a.s, Rot(a.r, b.t)), a.t))

None == <<>>
Some(x) == <<x>>

invert_not_inverted(m) == IF m.s = 0 THEN None ELSE Some(m)

\* SquareMatrix::invert: None for a matrix without inverse.
invert(m) ==
    IF m.s = 0 THEN None
    ELSE LET ri == (4 - m.r) % 4
         IN  Some(Mat(1, ri, Scale3(-1, Rot(ri, m.t))))

-----------------------------------------------------------------------------
(* The world of the skinning system *)

\* The transform an entity gets when it carries an invertible one.
TransformOf(e) == Mat(1, e % 4, <<e, 0, 0>>)

\* Buffer::new_from_vec over n matrices.
SkinBuffer(n) == [capacity |-> n, device |-> [j \in 1..n |-> Identity]]

Entity(transform, joint, skin) ==
    [transform |-> transform, joint |-> joint, skin |-> skin]

\* World::default(): no entity.  No Renderer is created.
SkinningInit ==
    /\ spc = "idle"
    /\ world = <<>>
    /\ joint_matrices = <<>>
    /\ sk = 0
    /\ uploads = <<>>
    /\ pc = "new_swapchain"
    /\ images = 1
    /\ params = [vertices |-> <<>>, indices |-> <<>>]
    /\ created = {}
    /\ deviceLog = <<>>
    /\ frames = <<>>
    /\ k = 0
    /\ frame_index = 0
    /\ vertex_buffer = NoBuffer
    /\ index_buffer = NoBuffer
    /\ cur = 0
    /\ result = "none"
    /\ calls = <<>>
    /\ errs = 0
    /\ driver = "none"
    /\ error = "none"

\* world.push((skin, TransformMatrix)), or a skin entity without transform.
PushSkin ==
    /\ spc = "idle"
    /\ Len(world) < MaxEntities
    /\ \E cap \in 0..MaxCapacity :
       \E tr \in {None, Some(Singular), Some(TransformOf(Len(world) + 1))} :
          world' = Append(world, Entity(tr, None, Some(SkinBuffer(cap))))
    /\ UNCHANGED <<spc, joint_matrices, sk, uploads>>
    /\ UNCHANGED rvars

\* world.push((joint, TransformMatrix, ..)), or a joint entity without
\* transform; the skeleton root is an entity pushed earlier.
PushJoint ==
    /\ spc = "idle"
    /\ Len(world) < MaxEntities
    /\ \E root \in 1..Len(world) :
       \E tr \in {None, Some(TransformOf(Len(world) + 1))} :
          world' = Append(world,
                      Entity(tr, Some([skeleton_root |-> root,
                                       inverse_bind_matrix |-> Identity]), None))
    /\ UNCHANGED <<spc, joint_matrices, sk, uploads>>
    /\ UNCHANGED rvars

\* The schedule runs the system: a fresh accumulator, then the joint query.
TickStart ==
    /\ spc = "idle"
    /\ spc' = "joints"
    /\ joint_matrices' = <<>>
    /\ uploads' = <<>>
    /\ sk' = 1
    /\ UNCHANGED world
    /\ UNCHANGED rvars

Push_front(jm, root, m) ==
    [e \in DOMAIN jm \cup {root} |->
        IF e = root
        THEN (IF root \in DOMAIN jm THEN <<m>> \o jm[root] ELSE <<m>>)
        ELSE jm[e]]

\* joint_matrices.entry(root).or_default().push(m)
Push(jm, root, m) ==
    [e \in DOMAIN jm \cup {root} |->
        IF e = root
        THEN (IF root \in DOMAIN jm THEN Append(jm[root], m) ELSE <<m>>)
        ELSE jm[e]]

\* One round of the closure of the query over (&TransformMatrix, &Joint).
JointStep ==
    /\ spc = "joints"
    /\ IF sk > Len(world)
       THEN /\ spc' = "skins"
            /\ sk' = 1
            /\ joint_matrices' = joint_matrices
       ELSE LET e == world[sk]
            IN  IF e.transform = None \/ e.joint = None
                THEN /\ sk' = sk + 1
                     /\ UNCHANGED <<spc, joint_matrices>>
                ELSE LET joint == e.joint[1]
                         root == world[joint.skeleton_root]
                         inv == IF root.transform = None THEN None
                                ELSE invert(root.transform[1])
                     IN  IF inv = None
                         THEN /\ spc' = IF root.transform = None
                                         THEN "panic_root_transform"
                                         ELSE "panic_invert"
                              /\ UNCHANGED <<sk, joint_matrices>>
                         ELSE /\ joint_matrices' =
                                    Push(joint_matrices, joint.skeleton_root,
                                         Mul(Mul(inv[1], e.transform[1]),
                                             joint.inverse_bind_matrix))
                              /\ sk' = sk + 1
                              /\ spc' = spc
    /\ UNCHANGED <<world, uploads>>
    /\ UNCHANGED rvars

\* Buffer::update(context, data, count): count elements are copied into the
\* mapped memory, with no check against the capacity.
update(buffer, matrices) == [buffer EXCEPT !.device = matrices]

\* One round of the loop over the entities of the query over &Skin.
SkinStep ==
    /\ spc = "skins"
    /\ IF sk > Len(world)
       THEN /\ spc' = "idle"
            /\ UNCHANGED <<sk, world, uploads>>
       ELSE LET e == world[sk]
            IN  IF e.skin = None
                THEN /\ sk' = sk + 1
                     /\ UNCHANGED <<spc, world, uploads>>
                ELSE IF sk \notin DOMAIN joint_matrices
                THEN /\ spc' = "panic_no_joints"
                     /\ UNCHANGED <<sk, world, uploads>>
                ELSE LET matrices == joint_matrices[sk]
                     IN  /\ uploads' = Append(uploads,
                                          [entity |-> sk, count |-> Len(matrices)])
                         /\ \/ /\ world' = [world EXCEPT ![sk].skin =
                                                Some(update(e.skin[1], matrices))]
                               /\ sk' = sk + 1
                               /\ spc' = spc
                            \/ /\ spc' = "panic_update"
                               /\ UNCHANGED <<sk, world>>
    /\ UNCHANGED joint_matrices
    /\ UNCHANGED rvars

SkinningNext ==
    \/ PushSkin
    \/ PushJoint
    \/ TickStart
    \/ JointStep
    \/ SkinStep

-----------------------------------------------------------------------------
(* The world of tests::test_skinning_system *)

\* Buffer::new_from_vec: a buffer sized for the matrices, which it holds.
new_from_vec(matrices) == [capacity |-> Len(matrices), device |-> matrices]

\* The three pushes of the test: the skin entity, whose buffer is made of
\* two copies of the inverse of its transform, then the child joint and the
\* grandchild joint, each with the skin entity as skeleton root and the
\* identity as inverse bind matrix.  The test gives the root the translation
\* (1, 2, 3) and both joints the TransformMatrix of translation (1, 0, 0).
TestWorld(root_translation, child_translation, grandchild_translation) ==
    LET root_transform_matrix == from_translation(root_translation)
        inverse == invert(root_transform_matrix)[1]
        joint == [skeleton_root |-> 1, inverse_bind_matrix |-> Identity]
    IN  << Entity(Some(root_transform_matrix), None,
                  Some(new_from_vec(<<inverse, inverse>>))),
           Entity(Some(from_translation(child_translation)), Some(joint), None),
           Entity(Some(from_translation(grandchild_translation)), Some(joint),
                  None) >>

Shifts == 0..MaxShift

\* The world of the test, for the translations of the test and others.
TestInit ==
    /\ spc = "idle"
    /\ \E x, y, z, c, g \in Shifts :
          world = TestWorld(<<x, y, z>>, <<c, 0, 0>>, <<g, 0, 0>>)
    /\ joint_matrices = <<>>
    /\ sk = 0
    /\ uploads = <<>>
    /\ pc = "new_swapchain"
    /\ images = 1
    /\ params = [vertices |-> <<>>, indices |-> <<>>]
    /\ created = {}
    /\ deviceLog = <<>>
    /\ frames = <<>>
    /\ k = 0
    /\ frame_index = 0
    /\ vertex_buffer = NoBuffer
    /\ index_buffer = NoBuffer
    /\ cur = 0
    /\ result = "none"
    /\ calls = <<>>
    /\ errs = 0
    /\ driver = "none"
    /\ error = "none"

\* schedule.execute: the skinning system alone.
TestNext ==
    \/ TickStart
    \/ JointStep
    \/ SkinStep

-----------------------------------------------------------------------------
(* Claims about the Renderer *)

\* C1: every draw call increases frame_index by exactly 1 (the counter moves
\* at the entry of draw and nowhere else while the Renderer lives), and no
\* step of a draw call changes the host mirror, the device data or the
\* length of the vertex buffer or of the index buffer.
C1_DrawCountsAndKeepsBuffers ==
    [][ /\ (pc = "ready" /\ pc' \in {"prepare", "panicked"})
            => frame_index' = frame_index + 1
        /\ (RendererLive /\ ~(pc = "ready" /\ pc' \in {"prepare", "panicked"}))
            => frame_index' = frame_index
        /\ (RendererLive /\ pc' \in LivePcs \cup {"panicked"})
            => /\ vertex_buffer' = vertex_buffer
               /\ index_buffer' = index_buffer
               /\ vertex_buffer = NewBuffer(params.vertices)
               /\ index_buffer = NewBuffer(params.indices) ]_vars

\* Three draw calls have returned Ok over non-empty buffers.
C1_Witness ==
    /\ pc = "ready"
    /\ result = "ok"
    /\ frame_index = MaxDraws
    /\ Len(vertex_buffer.data) > 0
    /\ Len(index_buffer.device) > 1

\* C2: a Renderer that was created holds one Frame per swapchain image, in
\* image order, whatever create_image_view answered, also after draw calls.
C2_OneFramePerImage ==
    RendererLive =>
        /\ Len(frames) = images
        /\ \A j \in DOMAIN frames : frames[j].image = j - 1

Submitted == {j \in DOMAIN frames : frames[j].state = "Submitted"}

IsDropCall(c) == c[1] # "shader_module"

IsFrameObject(c) == c[1] \in {"framebuffer", "command_buffer", "fence"}

\* The calls drop has made so far.
DropLog == SelectSeq(deviceLog, IsDropCall)

IsPrefix(a, b) == Len(a) <= Len(b) /\ a = SubSeq(b, 1, Len(a))

\* C4: drop waits for the queue to be idle and then destroys the depth image,
\* the vertex buffer, the index buffer, every Frame, the pipeline layout, the
\* render pass and the pipeline, in this order: at every moment the calls
\* made are a prefix of that list, which starts with the wait, and once drop
\* is over they are all of it, every Frame's objects included.
C4_DropOrder ==
    LET frameCalls == IF frames = <<>> THEN SelectSeq(DropLog, IsFrameObject)
                      ELSE DrainFrames(frames)
        order == <<QueueWaitIdle, Obj("depth_image", 0), Obj("vertex_buffer", 0),
                   Obj("index_buffer", 0)>>
                 \o frameCalls
                 \o <<Obj("pipeline_layout", 0), Obj("render_pass", 0),
                      Obj("pipeline", 0)>>
    IN  /\ IsPrefix(DropLog, order)
        /\ pc = "drop" => DropLog # <<>> /\ DropLog[1] = QueueWaitIdle
        /\ pc \notin {"drop", "dropped"} => DropLog = <<>>
        /\ pc = "dropped" =>
              /\ DropLog = order
              /\ \A o \in created : IsFrameObject(o) => Frees(o) = 1

\* A Renderer of two Frames or more has been dropped after a draw call.
C4_Witness ==
    /\ pc = "dropped"
    /\ frame_index > 0
    /\ Cardinality({o \in created : o[1] = "fence"}) >= 2

\* C5: once a Renderer has been dropped, every GPU object its creation made
\* has been released exactly once.
C5_FreedExactlyOnce ==
    pc = "dropped" => \A o \in created : Frees(o) = 1

\* C9: when the driver rejects the bytecode at a shader module or at the
\* pipeline, or returns no pipeline, create_pipeline returns an error and
\* Renderer::new returns that error: no Renderer exists.
C9_RejectedBytecodeFails ==
    driver \in Rejections =>
        /\ create_pipeline(driver).error # "none"
        /\ pc = "failed"
        /\ error = (IF driver = "empty" THEN "EmptyListError" ELSE "VkResult")
        /\ Obj("pipeline", 0) \notin created

\* The driver returned no pipeline and Renderer::new returned EmptyListError.
C9_Witness ==
    /\ driver = "empty"
    /\ pc = "failed"
    /\ error = "EmptyListError"

\* The commands of one draw call, for an index buffer of n indices.
FrameCommands(n) ==
    << [op |-> "begin_command_buffer", arg |-> <<>>],
       [op |-> "cmd_begin_render_pass", arg |-> <<0, 0, 0, 1, 0, 0>>],
       [op |-> "cmd_bind_pipeline", arg |-> <<>>],
       [op |-> "cmd_bind_vertex_buffers", arg |-> <<0, 0>>],
       [op |-> "cmd_bind_index_buffer", arg |-> <<0, 32>>],
       [op |-> "cmd_draw_indexed", arg |-> <<n, 1, 0, 0, 0>>],
       [op |-> "cmd_end_render_pass", arg |-> <<>>],
       [op |-> "end_command_buffer", arg |-> <<>>] >>

\* C10: the command buffer a draw call submits, and the command buffer of a
\* draw call that returned Ok, hold exactly: begin, begin render pass (clear
\* colour opaque black, clear depth 0), bind pipeline, bind vertex buffer at
\* offset 0, bind 32-bit index buffer at offset 0, one indexed draw over the
\* whole index buffer, end render pass, end; the recording has ended at the
\* submit.
C10_RecordedCommands ==
    LET expected == FrameCommands(Len(index_buffer.data))
    IN  /\ \A j \in DOMAIN frames :
              frames[j].submitted # <<>> => frames[j].submitted = expected
        /\ pc = "wait_for_fences" =>
              /\ frames[cur + 1].submitted = expected
              /\ frames[cur + 1].commands = expected
        /\ (pc = "ready" /\ result = "ok") =>
              /\ frames[cur + 1].submitted = expected
              /\ frames[cur + 1].commands = expected

\* A draw call over a non-empty index buffer has returned Ok.
C10_Witness ==
    /\ pc = "ready"
    /\ result = "ok"
    /\ Len(index_buffer.data) = MaxIndices
    /\ frames[cur + 1].submitted[6].arg[1] = MaxIndices

-----------------------------------------------------------------------------
(* Claims about the skinning system *)

\* The entities whose Joint has skeleton root s.
JointsOf(s) ==
    {e \in DOMAIN world :
        world[e].joint # None /\ world[e].joint[1].skeleton_root = s}

UploadsOf(s) == {j \in DOMAIN uploads : uploads[j].entity = s}

\* C6: in a pass, every Skin entity the skin query has come to has got one
\* upload, of exactly as many matrices as there are entities whose Joint has
\* it as skeleton root, with or without TransformMatrix.
C6_UploadLengthIsJointCount ==
    spc = "skins" =>
        \A s \in 1..(sk - 1) :
            world[s].skin # None =>
                /\ Cardinality(UploadsOf(s)) = 1
                /\ \A j \in UploadsOf(s) :
                      uploads[j].count = Cardinality(JointsOf(s))

\* C7: a skeleton root without TransformMatrix and a Skin without
\* accumulated matrices are per-entity errors: the tick is not aborted.
C7_TickNotAborted ==
    spc \notin {"panic_root_transform", "panic_no_joints"}

\* C8: the number of matrices passed to a skin buffer's update is at most
\* the number of elements the buffer was created with.
C8_UpdateWithinCapacity ==
    \A j \in DOMAIN uploads :
        uploads[j].count <= world[uploads[j].entity].skin[1].capacity


\* The entities the joint query visits: those with TransformMatrix and Joint.
IsVisited(e) == world[e].transform # None /\ world[e].joint # None

\* The matrix of joint entity e.
JointMatrixOf(e) ==
    LET joint == world[e].joint[1]
        root == world[joint.skeleton_root]
    IN  Mul(Mul(invert(root.transform[1])[1], world[e].transform[1]),
            joint.inverse_bind_matrix)

\* The matrices of the visited joints among entities 1..n whose skeleton
\* root is s, in the order the query meets them.
RECURSIVE MatricesOf(_, _)
MatricesOf(s, n) ==
    IF n = 0 THEN <<>>
    ELSE IF IsVisited(n) /\ world[n].joint[1].skeleton_root = s
         THEN Append(MatricesOf(s, n - 1), JointMatrixOf(n))
         ELSE MatricesOf(s, n - 1)

\* The skeleton roots of the visited joints among entities 1..n.
RootsOf(n) ==
    {world[e].joint[1].skeleton_root : e \in {v \in 1..n : IsVisited(v)}}

\* C11: the accumulator holds, per skeleton root, the matrices of the joints
\* visited so far that have this root, in the order of the visits; no upload
\* is made while the joint query runs; and what is uploaded to a Skin entity
\* is exactly the matrices of the joints of the whole world whose skeleton
\* root is that entity, in that order.
C11_UploadIsJointSequence ==
    /\ spc = "joints" =>
          /\ uploads = <<>>
          /\ DOMAIN joint_matrices = RootsOf(sk - 1)
          /\ \A s \in DOMAIN joint_matrices :
                joint_matrices[s] = MatricesOf(s, sk - 1)
    /\ spc = "skins" =>
          /\ DOMAIN joint_matrices = RootsOf(Len(world))
          /\ \A s \in DOMAIN joint_matrices :
                joint_matrices[s] = MatricesOf(s, Len(world))
          /\ \A j \in DOMAIN uploads :
                uploads[j].count = Len(MatricesOf(uploads[j].entity, Len(world)))
          /\ \A s \in 1..(sk - 1) :
                world[s].skin # None =>
                    /\ UploadsOf(s) # {}
                    /\ world[s].skin[1].device = MatricesOf(s, Len(world))

\* A Skin has been uploaded the two different matrices of its two joints.
C11_Witness ==
    /\ spc = "skins"
    /\ sk = 2
    /\ world[1].skin # None
    /\ Len(world[1].skin[1].device) = 2
    /\ world[1].skin[1].device[1] # world[1].skin[1].device[2]
    /\ world[1].skin[1].device = <<JointMatrixOf(2), JointMatrixOf(3)>>

\* The skin entity of the test's world has been uploaded its matrices.
TestUploaded ==
    /\ Len(world) = 3
    /\ UploadsOf(1) # {}
    /\ spc # "panic_update"

TheTestWorld == TestWorld(<<1, 2, 3>>, <<1, 0, 0>>, <<1, 0, 0>>)

\* The entities of the test, whatever the skin's buffer holds by now.
IsTheTestWorld ==
    /\ Len(world) = 3
    /\ world[1].transform = TheTestWorld[1].transform
    /\ world[2] = TheTestWorld[2]
    /\ world[3] = TheTestWorld[3]

\* C12 as stated: in the world of the test, the matrix uploaded for each of
\* the two joints is not the identity and the two matrices differ.
C12_TestMatricesDiffer ==
    (IsTheTestWorld /\ TestUploaded) =>
        LET from_buf == world[1].skin[1].device
        IN  /\ Len(from_buf) = 2
            /\ from_buf[1] # Identity
            /\ from_buf[2] # Identity
            /\ from_buf[1] # from_buf[2]

Sub3(a, b) == <<a[1] - b[1], a[2] - b[2], a[3] - b[3]>>

\* C12 as amended: with skinning_matrix = inverse(root) * joint * inverse
\* bind, the matrix uploaded for a joint of a world like the test's is the
\* translation by the joint's translation minus the root's, so that the two
\* matrices differ exactly when the two joints' TransformMatrix differ; in
\* the world of the test both are the translation by (0, -2, -3): neither
\* is the identity, neither is the matrix the buffer was created with, and
\* the two are equal, both joints having the translation (1, 0, 0).
C12_TestMatrices ==
    TestUploaded =>
        LET from_buf == world[1].skin[1].device
            root == world[1].transform[1]
            child == world[2].transform[1]
            grandchild == world[3].transform[1]
            inverse == invert(root)[1]
        IN  /\ from_buf = << from_translation(Sub3(child.t, root.t)),
                             from_translation(Sub3(grandchild.t, root.t)) >>
            /\ (from_buf[1] # from_buf[2]) <=> (child # grandchild)
            /\ IsTheTestWorld =>
                  /\ from_buf = << from_translation(<<0, -2, -3>>),
                                   from_translation(<<0, -2, -3>>) >>
                  /\ \A j \in 1..2 : from_buf[j] # Identity /\ from_buf[j] # inverse

\* The tick over the world of the test has uploaded its two matrices.
C12_Witness ==
    /\ TestUploaded
    /\ spc = "idle"
    /\ IsTheTestWorld
    /\ world[1].skin[1].device # TheTestWorld[1].skin[1].device

\* The objects Renderer::new and create_pipeline make with raw device calls
\* and keep as plain handles.
RawHandles == {"pipeline_layout", "render_pass", "shader_module", "pipeline"}

\* C13: when Renderer::new has returned an error, every object created by
\* the earlier steps of that creation has been destroyed, the shader
\* modules of create_pipeline included.
C13_FailedCreationFreesAll ==
    pc = "failed" =>
        \A o \in created : o[1] \in RawHandles => Frees(o) = 1

\* The Renderer, from its creation to its drop.
Spec == Init /\ [][Next]_vars

\* The skinning system over a world that grows between ticks.
SkinningSpec == SkinningInit /\ [][SkinningNext]_vars

\* tests::test_skinning_system, over the test's translations and others.
TestSpec == TestInit /\ [][TestNext]_vars

====
